---- MODULE Spec2Model ----
(***************************************************************************)
(* Model of open-market-watcher (src/main.py): the SQLite cache functions  *)
(* (save_*_cache / load_*_cache) and the DataWorker acquisition run.       *)
(*                                                                         *)
(* Calendar dates are days of one month (January 2024): a date is its day  *)
(* number.  Prices and rates are exact rationals [n, d]; a missing value   *)
(* (NaN / None / SQL NULL) is the record Missing.                          *)
(***************************************************************************)
EXTENDS Integers, Sequences, FiniteSets, Bags, TLC

\* ------------------------------------------------------------------ bounds
\* Number of calendar days a run's date range is drawn from.
MaxDay == 2
\* Largest number of entities the ranking call returns in the model.
MaxCoins == 2
\* Number of entries of the fixed fiat list the model's runs walk through.
NumFiats == 1
\* Largest number of points in a batch handed directly to save_*_cache.
MaxBatch == 2
\* Largest number of direct cache calls in a row (SpecCache).
MaxCalls == 2

\* ------------------------------------------------------- program constants
\* per_page=20 of the ranking request.
PerPage == 20
\* pd.to_datetime(..., unit="ms") followed by resample("1D").
MsPerDay == 86400000

\* ------------------------------------------------------------------ values
Missing == [isnull |-> TRUE, n |-> 0, d |-> 1]

RECURSIVE GCD(_, _)
GCD(a, b) == IF b = 0 THEN a ELSE GCD(b, a % b)

Abs(x) == IF x < 0 THEN -x ELSE x

\* The rational n/d in lowest terms, d > 0.
Num(n, d) ==
    LET g == GCD(Abs(n), Abs(d))
        s == IF d < 0 THEN -1 ELSE 1
    IN  [isnull |-> FALSE, n |-> s * (n \div g), d |-> s * (d \div g)]

IsNum(v) == ~v.isnull

RatAdd(a, b) == Num(a.n * b.d + b.n * a.d, a.d * b.d)

RatDivInt(a, k) == Num(a.n, a.d * k)

\* 1.0 / v element-wise; 1.0 / NaN is NaN.
RatInv(v) == IF v.isnull THEN Missing ELSE Num(v.d, v.n)

One == Num(1, 1)

RECURSIVE RatSum(_)
RatSum(s) == IF s = <<>> THEN Num(0, 1) ELSE RatAdd(Head(s), RatSum(Tail(s)))

\* Series.dropna(): the non-missing values, order kept.
DropNa(vals) == SelectSeq(vals, IsNum)

\* Mutant: the missing values count in the denominator.
SeriesMeanOverAll(vals) ==
    LET xs == DropNa(vals)
    IN  IF xs = <<>> THEN Missing ELSE RatDivInt(RatSum(xs), Len(vals))

\* Series.mean(): NaN are skipped; NaN (Missing) when nothing is left.
SeriesMean(vals) ==
    LET xs == DropNa(vals)
    IN  IF xs = <<>> THEN Missing ELSE RatDivInt(RatSum(xs), Len(xs))

\* ------------------------------------------------------------------- dates
Days == 9 .. (8 + MaxDay)

\* An input that pd.to_datetime cannot parse.
BadDate == 0

\* date.isoformat() within the month: "2024-01-DD" as its characters'
\* digits (the separators are the same in every date and are left out).
IsoFormat(day) == <<2, 0, 2, 4, 0, 1, day \div 10, day % 10>>

\* pd.to_datetime on a stored Date text.
FromIso(txt) == txt[7] * 10 + txt[8]

\* SQLite's comparison of two TEXT values (BINARY collation): bytewise.
RECURSIVE TextLeq(_, _)
TextLeq(a, b) ==
    IF a = <<>> THEN TRUE
    ELSE IF b = <<>> THEN FALSE
    ELSE IF Head(a) < Head(b) THEN TRUE
    ELSE IF Head(a) > Head(b) THEN FALSE
    ELSE TextLeq(Tail(a), Tail(b))

\* pd.date_range(start, end): every day from start to end, both included.
RECURSIVE DateRange(_, _)
DateRange(s, e) == IF s > e THEN <<>> ELSE <<s>> \o DateRange(s + 1, e)

\* ------------------------------------------------------------- cache store
\* A DataFrame is a sequence of rows [date, value]; pd.DataFrame() is <<>>.
\* A table is the bag of its rows: [coin_id, Date, price] in crypto_prices,
\* [code, Date, Close] in fiat_rates, Date being the stored text.

\* init_db(): both tables exist; a fresh database file holds no row.
EmptyCache == [crypto_prices |-> EmptyBag, fiat_rates |-> EmptyBag]

CryptoKey(r) == <<r.coin_id, r.Date>>

FiatKey(r) == <<r.code, r.Date>>

\* Mutant: INSERT OR IGNORE, the row already stored under the key stays.
CryptoInsertOrIgnore(tbl, row) ==
    IF \E x \in DOMAIN tbl : CryptoKey(x) = CryptoKey(row)
    THEN tbl
    ELSE tbl (+) SetToBag({row})

\* INSERT OR REPLACE INTO crypto_prices of one row, under
\* PRIMARY KEY (coin_id, Date): the rows that hold the key are deleted, the
\* new row is inserted.
CryptoInsertOrReplace(tbl, row) ==
    [r \in {x \in DOMAIN tbl : CryptoKey(x) # CryptoKey(row)} |-> tbl[r]]
        (+) SetToBag({row})

\* Mutant: INSERT OR IGNORE INTO fiat_rates, the first row written stays.
FiatInsertOrIgnore(tbl, row) ==
    IF \E x \in DOMAIN tbl : FiatKey(x) = FiatKey(row)
    THEN tbl
    ELSE tbl (+) SetToBag({row})

\* INSERT OR REPLACE INTO fiat_rates of one row, under PRIMARY KEY (code, Date).
FiatInsertOrReplace(tbl, row) ==
    [r \in {x \in DOMAIN tbl : FiatKey(x) # FiatKey(row)} |-> tbl[r]]
        (+) SetToBag({row})

\* cur.executemany(...): one INSERT OR REPLACE per row, in order.
RECURSIVE CryptoExecuteMany(_, _)
CryptoExecuteMany(tbl, rows) ==
    IF rows = <<>> THEN tbl
    ELSE CryptoExecuteMany(CryptoInsertOrReplace(tbl, Head(rows)), Tail(rows))

RECURSIVE FiatExecuteMany(_, _)
FiatExecuteMany(tbl, rows) ==
    IF rows = <<>> THEN tbl
    ELSE FiatExecuteMany(FiatInsertOrReplace(tbl, Head(rows)), Tail(rows))

\* pd.to_datetime(column) raises when a value of the column cannot be parsed.
ToDatetimeRaises(df) == \E i \in 1 .. Len(df) : df[i].date = BadDate

\* float(v) if pd.notna(v) else None
FloatOrNone(v) == IF v.isnull THEN Missing ELSE v

\* The rows list built by the loop over tmp.iterrows().
RECURSIVE CryptoRows(_, _)
CryptoRows(coin_id, df) ==
    IF df = <<>> THEN <<>>
    ELSE <<[coin_id |-> coin_id, Date |-> IsoFormat(Head(df).date),
            price |-> FloatOrNone(Head(df).value)]>>
         \o CryptoRows(coin_id, Tail(df))

RECURSIVE FiatRows(_, _)
FiatRows(code, df) ==
    IF df = <<>> THEN <<>>
    ELSE <<[code |-> code, Date |-> IsoFormat(Head(df).date),
            Close |-> FloatOrNone(Head(df).value)]>>
         \o FiatRows(code, Tail(df))

\* Mutant: the series of the entity is replaced as a whole, its stored rows
\* deleted before the rows of df are written, whatever df holds.
save_crypto_cache_replacing(c, coin_id, df) ==
    LET kept == {x \in DOMAIN c.crypto_prices : x.coin_id # coin_id}
        cleared == [c EXCEPT !.crypto_prices =
                       [r \in kept |-> c.crypto_prices[r]]]
    IN  IF ToDatetimeRaises(df) THEN [raised |-> TRUE, cache |-> c]
        ELSE [raised |-> FALSE,
              cache |-> [cleared EXCEPT !.crypto_prices =
                            CryptoExecuteMany(@, CryptoRows(coin_id, df))]]

\* save_crypto_cache(coin_id, df) on cache c: [raised, cache].
save_crypto_cache(c, coin_id, df) ==
    IF df = <<>> THEN [raised |-> FALSE, cache |-> c]
    ELSE IF ToDatetimeRaises(df) THEN [raised |-> TRUE, cache |-> c]
    ELSE [raised |-> FALSE,
          cache |-> [c EXCEPT !.crypto_prices =
                        CryptoExecuteMany(@, CryptoRows(coin_id, df))]]

\* save_fiat_cache(code, df) on cache c: [raised, cache].
save_fiat_cache(c, code, df) ==
    IF df = <<>> THEN [raised |-> FALSE, cache |-> c]
    ELSE IF ToDatetimeRaises(df) THEN [raised |-> TRUE, cache |-> c]
    ELSE [raised |-> FALSE,
          cache |-> [c EXCEPT !.fiat_rates =
                        FiatExecuteMany(@, FiatRows(code, df))]]

\* Mutant: the upper bound of the range is left out.
BetweenExclusive(txt, lo, hi) == TextLeq(lo, txt) /\ ~TextLeq(hi, txt)

\* WHERE Date BETWEEN lo AND hi, on the stored text.
Between(txt, lo, hi) == TextLeq(lo, txt) /\ TextLeq(txt, hi)

\* ORDER BY Date ASC over a bag of rows.
RECURSIVE OrderByDate(_)
OrderByDate(b) ==
    IF DOMAIN b = {} THEN <<>>
    ELSE LET r == CHOOSE x \in DOMAIN b :
                     \A y \in DOMAIN b : TextLeq(x.Date, y.Date)
         IN  <<r>> \o OrderByDate(b (-) SetToBag({r}))

RECURSIVE CryptoFrame(_)
CryptoFrame(rows) ==
    IF rows = <<>> THEN <<>>
    ELSE <<[date |-> FromIso(Head(rows).Date), value |-> Head(rows).price]>>
         \o CryptoFrame(Tail(rows))

RECURSIVE FiatFrame(_)
FiatFrame(rows) ==
    IF rows = <<>> THEN <<>>
    ELSE <<[date |-> FromIso(Head(rows).Date), value |-> Head(rows).Close]>>
         \o FiatFrame(Tail(rows))

\* load_crypto_cache(coin_id, start_date, end_date) on cache c.
load_crypto_cache(c, coin_id, start, end) ==
    LET tbl == c.crypto_prices
        hit == {r \in DOMAIN tbl :
                   r.coin_id = coin_id
                   /\ Between(r.Date, IsoFormat(start), IsoFormat(end))}
    IN  CryptoFrame(OrderByDate([r \in hit |-> tbl[r]]))

\* load_fiat_cache(code, start_date, end_date) on cache c.
load_fiat_cache(c, code, start, end) ==
    LET tbl == c.fiat_rates
        hit == {r \in DOMAIN tbl :
                   r.code = code
                   /\ Between(r.Date, IsoFormat(start), IsoFormat(end))}
    IN  FiatFrame(OrderByDate([r \in hit |-> tbl[r]]))

\* ------------------------------------------------------ provider adapters
\* The provider's market, by market capitalisation (descending).
Market ==
    << [id |-> "ethereum", name |-> "Ethereum"],
       [id |-> "bitcoin", name |-> "Bitcoin"],
       [id |-> "tether", name |-> "Tether"],
       [id |-> "solana", name |-> "Solana"] >>

Min(a, b) == IF a < b THEN a ELSE b

\* What get_coins_markets(per_page=20, page=1) can return: the first n
\* entities of the market, n up to per_page.
Rankings == {SubSeq(Market, 1, n) : n \in 0 .. Min(MaxCoins, PerPage)}

\* pd.to_datetime(ts, unit="ms") floored to its calendar day by resample("1D").
ToDay(ts) == ts \div MsPerDay

\* The prices of the samples of one day, in order.
RECURSIVE DayPrices(_, _)
DayPrices(prices, day) ==
    IF prices = <<>> THEN <<>>
    ELSE (IF ToDay(Head(prices).ts) = day THEN <<Head(prices).price>> ELSE <<>>)
         \o DayPrices(Tail(prices), day)

\* Mutant: a day whose mean is NaN is kept, with the value 0 (fillna(0)).
RECURSIVE ResampleDaysZeroFilled(_, _, _)
ResampleDaysZeroFilled(prices, first, last) ==
    IF first > last THEN <<>>
    ELSE LET m == SeriesMean(DayPrices(prices, first))
         IN  <<[date |-> first, value |-> IF IsNum(m) THEN m ELSE Num(0, 1)]>>
             \o ResampleDaysZeroFilled(prices, first + 1, last)

\* resample("1D").mean().dropna() over the days first .. last: one row per
\* day holding the mean of the day's samples; days whose mean is NaN dropped.
RECURSIVE ResampleDays(_, _, _)
ResampleDays(prices, first, last) ==
    IF first > last THEN <<>>
    ELSE LET m == SeriesMean(DayPrices(prices, first))
         IN  (IF IsNum(m) THEN <<[date |-> first, value |-> m]>> ELSE <<>>)
             \o ResampleDays(prices, first + 1, last)

SampleDays(prices) == {ToDay(prices[i].ts) : i \in 1 .. Len(prices)}

SetMin(S) == CHOOSE x \in S : \A y \in S : x <= y

SetMax(S) == CHOOSE x \in S : \A y \in S : x >= y

Resample(prices) ==
    ResampleDays(prices, SetMin(SampleDays(prices)), SetMax(SampleDays(prices)))

RECURSIVE Column(_)
Column(df) == IF df = <<>> THEN <<>> ELSE <<Head(df).value>> \o Column(Tail(df))

\* Mutant: a failed history call leaves an average of zero.
CryptoFetchZeroOnFailure(resp) ==
    IF resp.raises
    THEN [failed |-> TRUE, avg |-> Num(0, 1), hist_df |-> <<>>]
    ELSE IF resp.prices # <<>>
    THEN LET df == Resample(resp.prices)
         IN  [failed |-> FALSE,
              avg |-> IF df # <<>> THEN SeriesMean(Column(df)) ELSE Missing,
              hist_df |-> df]
    ELSE [failed |-> FALSE, avg |-> Missing, hist_df |-> <<>>]

\* Lines 161-176: the try block around get_coin_market_chart_range_by_id.
\* resp is what the call did: [raises, prices].
CryptoFetch(resp) ==
    IF resp.raises
    THEN [failed |-> TRUE, avg |-> Missing, hist_df |-> <<>>]
    ELSE IF resp.prices # <<>>
    THEN LET df == Resample(resp.prices)
         IN  [failed |-> FALSE,
              avg |-> IF df # <<>> THEN SeriesMean(Column(df)) ELSE Missing,
              hist_df |-> df]
    ELSE [failed |-> FALSE, avg |-> Missing, hist_df |-> <<>>]

\* The fixed fiat list of the run.
FIATS ==
    << [code |-> "EUR", name |-> "Euro"],
       [code |-> "JPY", name |-> "Japanese Yen"],
       [code |-> "GBP", name |-> "British Pound"],
       [code |-> "AUD", name |-> "Australian Dollar"],
       [code |-> "CAD", name |-> "Canadian Dollar"],
       [code |-> "CHF", name |-> "Swiss Franc"],
       [code |-> "CNY", name |-> "Chinese Yuan"],
       [code |-> "HKD", name |-> "Hong Kong Dollar"],
       [code |-> "NZD", name |-> "New Zealand Dollar"],
       [code |-> "BRL", name |-> "Brazilian Real"] >>

\* The entries of the list the model's runs walk through.
fiats == SubSeq(FIATS, 1, Min(NumFiats, Len(FIATS)))

RECURSIVE ConstantFrame(_, _)
ConstantFrame(days, v) ==
    IF days = <<>> THEN <<>>
    ELSE <<[date |-> Head(days), value |-> v]>> \o ConstantFrame(Tail(days), v)

\* Mutant: the constant series stops the day before end_date.
FiatBaseWithoutLastDay(start, end) ==
    [failed |-> FALSE, avg |-> One,
     hist_df |-> ConstantFrame(DateRange(start, end - 1), One)]

\* Lines 218-221: code == base_currency.
FiatBase(start, end) ==
    [failed |-> FALSE, avg |-> One,
     hist_df |-> ConstantFrame(DateRange(start, end), One)]

\* df["Close"] = 1.0 / df["Close"]
RECURSIVE Reciprocal(_)
Reciprocal(df) ==
    IF df = <<>> THEN <<>>
    ELSE <<[date |-> Head(df).date, value |-> RatInv(Head(df).value)]>>
         \o Reciprocal(Tail(df))

\* Lines 234-240: average and history of the frame the downloads gave.
FiatFrameSummary(df) ==
    IF df # <<>>
    THEN [failed |-> FALSE, avg |-> SeriesMean(Column(df)), hist_df |-> df]
    ELSE [failed |-> FALSE, avg |-> Missing, hist_df |-> <<>>]

\* Lines 241-244: a download raised.
FiatFailed == [failed |-> TRUE, avg |-> Missing, hist_df |-> <<>>]

\* str.upper() / str.lower() on the currency codes in use.
Upper(s) ==
    CASE s = "usd" -> "USD" [] s = "eur" -> "EUR" [] s = "brl" -> "BRL"
      [] OTHER -> s

\* ------------------------------------------------------------------- state
VARIABLES
    start_date,     \* DataWorker.start_date
    end_date,       \* DataWorker.end_date
    base_currency,  \* DataWorker.base_currency
    _stopped,       \* DataWorker._stopped
    pc,             \* where DataWorker.run stands
    top,            \* the ranking returned by get_coins_markets
    idx,            \* the index of the running for loop
    result,         \* the result dict of the run
    events,         \* the signals emitted so far, in order
    cache,          \* the two tables of crypto_cache.db
    cache0,         \* the tables as the run found them
    calls,          \* the per-entity provider requests issued so far, in order
    responses,      \* what the provider and the database did for each summary,
                    \* and what the direct pair of the fiat in hand returned
    stopAt,         \* where the run stood when stop() was called
    lastWrite,      \* direct cache calls: the value last written under each key
    loaded,         \* direct cache calls: what the last load_* returned
    twice,          \* direct cache calls: the tables, had the last call been made twice
    ncalls,         \* direct cache calls: how many were made
    saveCall,       \* one save_*_cache call: its arguments and how it ended
    workers,        \* two concurrent runs: where each stands in its cache
                    \* writes, and which of them holds the database's write lock
    load_btn,       \* MarketApp.load_btn.isEnabled()
    worker,         \* MarketApp.worker: "none", or the worker "started",
                    \* "handled" (its terminal event was handled), or the "next"
    data,           \* MarketApp.data: <<>> for None, or <<the result>>
    dialog          \* the message box the last handler showed, "none" if none

vars ==
    << start_date, end_date, base_currency, _stopped, pc, top, idx,
       result, events, cache, cache0, calls, responses, stopAt, lastWrite,
       loaded, twice, ncalls, saveCall, workers, load_btn, worker, data,
       dialog >>

runVars ==
    << start_date, end_date, base_currency, _stopped, pc, top, idx,
       result, events, calls, responses, stopAt >>

\* What the calls on the cache alone leave as it is.
otherVars == << workers, load_btn, worker, data, dialog >>

\* The window of the application.
appVars == << load_btn, worker, data, dialog >>

directVars ==
    << cache0, lastWrite, loaded, twice, ncalls, saveCall, workers, load_btn,
       worker, data, dialog >>

\* ------------------------------------------------------------- environment
\* Base currencies a worker is constructed with.
BaseInputs == {"USD", "EUR", "eur"}

\* The samples the crypto provider holds for a range: two on the first day,
\* one without a price on the last day.
CryptoSamples(start, end) ==
    << [ts |-> start * MsPerDay, price |-> Num(100, 1)],
       [ts |-> start * MsPerDay + 3600000, price |-> Num(110, 1)],
       [ts |-> end * MsPerDay + 7200000, price |-> Missing] >>

\* What get_coin_market_chart_range_by_id can do: raise, return no prices,
\* return samples.
CryptoResponses(start, end) ==
    { [raises |-> TRUE, prices |-> <<>>],
      [raises |-> FALSE, prices |-> <<>>],
      [raises |-> FALSE, prices |-> CryptoSamples(start, end)] }

DirectFrame(start, end) ==
    <<[date |-> start, value |-> Num(5, 1)]>>
    \o (IF end > start THEN <<[date |-> end, value |-> Missing]>> ELSE <<>>)

InverseFrame(start, end) ==
    <<[date |-> start, value |-> Num(2, 1)]>>
    \o (IF end > start THEN <<[date |-> end, value |-> Num(4, 1)]>> ELSE <<>>)

\* What yf.download can do for a pair: raise, return an empty frame, return
\* the frame the provider holds.
Downloads(frame) ==
    { [raises |-> TRUE, df |-> <<>>],
      [raises |-> FALSE, df |-> <<>>],
      [raises |-> FALSE, df |-> frame] }

NoDownload == [raises |-> FALSE, df |-> <<>>]

\* Rows an earlier run of the program left in the database file.
SeededCache ==
    LET d == SetMin(Days)
        c1 == save_crypto_cache(EmptyCache, Market[1].id,
                                <<[date |-> d, value |-> Num(7, 1)]>>).cache
    IN  save_fiat_cache(c1, FIATS[1].code,
                        <<[date |-> d, value |-> Num(9, 1)]>>).cache

InitialCaches == {EmptyCache, SeededCache}

\* No second run beside the one followed.
NoWorkers == [run |-> <<>>, lock |-> 0]

\* No save_*_cache call is being followed.
NoCall ==
    [fn |-> "", arg |-> [none |-> TRUE, rows |-> <<>>], raised |-> FALSE,
     returned |-> FALSE]

NotStopped == [called |-> FALSE, pc |-> "", idx |-> 0, ncalls |-> 0, nsum |-> 0]

\* MarketApp.__init__: the button is enabled, there is no worker, no data.
AppIdle ==
    /\ load_btn = TRUE
    /\ worker = "none"
    /\ data = <<>>
    /\ dialog = "none"

\* ---------------------------------------------------------------- signals
Log(msg, who) == [sig |-> "log", msg |-> msg, who |-> who]

Progress(current, total) ==
    [sig |-> "progress", current |-> current, total |-> total]

Finished(res) == [sig |-> "finished", result |-> res]

Error == [sig |-> "error"]

\* -------------------------------------------------------------------- run
\* DataWorker.__init__ and start(): the worker is about to enter run().
Init ==
    /\ start_date \in Days
    /\ end_date \in Days
    /\ start_date <= end_date
    /\ base_currency \in {Upper(b) : b \in BaseInputs}
    /\ _stopped = FALSE
    /\ pc = "ranking"
    /\ top = <<>>
    /\ idx = 0
    /\ result = [cryptos |-> <<>>, fiats |-> <<>>]
    /\ events = <<>>
    /\ cache \in InitialCaches
    /\ cache0 = cache
    /\ calls = <<>>
    /\ responses = [ranking |-> "pending", cryptos |-> <<>>, fiats |-> <<>>,
                    direct |-> NoDownload]
    /\ stopAt = NotStopped
    /\ lastWrite = <<>>
    /\ loaded = <<>>
    /\ twice = cache
    /\ ncalls = 0
    /\ saveCall = NoCall
    /\ workers = NoWorkers
    /\ load_btn = FALSE
    /\ worker = "started"
    /\ data = <<>>
    /\ dialog = "none"

\* DataWorker.stop(), from the caller's thread.
Stop ==
    /\ pc # "idle"
    /\ ~_stopped
    /\ _stopped' = TRUE
    /\ stopAt' = [called |-> TRUE, pc |-> pc, idx |-> idx, ncalls |-> Len(calls),
                  nsum |-> Len(result.cryptos) + Len(result.fiats)]
    /\ UNCHANGED << start_date, end_date, base_currency, pc, top, idx,
                    result, events, cache, calls, responses >>
    /\ UNCHANGED directVars

\* Lines 145-153: the ranking call returns.
RankingReturns ==
    /\ pc = "ranking"
    /\ \E ranking \in Rankings :
          /\ top' = ranking
          /\ pc' = "crypto_loop"
    /\ idx' = 0
    /\ responses' = [responses EXCEPT !.ranking = "returned"]
    /\ UNCHANGED << start_date, end_date, base_currency, _stopped,
                    result, events, cache, calls, stopAt >>
    /\ UNCHANGED directVars

\* Mutant: the failure of the ranking call is reported and the run goes on
\* with an empty ranking.
RankingRaisesAndGoesOn ==
    /\ pc = "ranking"
    /\ events' = Append(events, Error)
    /\ pc' = "crypto_loop"
    /\ responses' = [responses EXCEPT !.ranking = "raised"]
    /\ UNCHANGED << start_date, end_date, base_currency, _stopped, top, idx,
                    result, cache, calls, stopAt >>
    /\ UNCHANGED directVars

\* Mutant: the failure of the ranking call ends the thread with no signal.
RankingRaisesSilently ==
    /\ pc = "ranking"
    /\ pc' = "done"
    /\ responses' = [responses EXCEPT !.ranking = "raised"]
    /\ UNCHANGED << start_date, end_date, base_currency, _stopped, top, idx,
                    result, events, cache, calls, stopAt >>
    /\ UNCHANGED directVars

\* Lines 149, 262-264: the ranking call raises.
RankingRaises ==
    /\ pc = "ranking"
    /\ events' = Append(events, Error)
    /\ pc' = "done"
    /\ responses' = [responses EXCEPT !.ranking = "raised"]
    /\ UNCHANGED << start_date, end_date, base_currency, _stopped, top, idx,
                    result, cache, calls, stopAt >>
    /\ UNCHANGED directVars

\* Mutant: the crypto loop does not look at the stop flag.
CryptoStopCheckMissing == FALSE

\* Line 156: if self._stopped, at the head of the crypto loop.
CryptoStopCheck == _stopped

\* Mutant: the fiat loop does not look at the stop flag.
FiatStopCheckMissing == FALSE

\* Line 213: if self._stopped, at the head of the fiat loop.
FiatStopCheck == _stopped

\* Lines 155-162: the stop check passes, the entity is announced and its
\* history is requested.
CryptoBegin ==
    /\ pc = "crypto_loop"
    /\ idx < Len(top)
    /\ ~CryptoStopCheck
    /\ events' = Append(events, Log("Loading data for", top[idx + 1].name))
    /\ calls' = Append(calls, [fn |-> "get_coin_market_chart_range_by_id",
                               who |-> top[idx + 1].id,
                               arg |-> <<top[idx + 1].id>>])
    /\ pc' = "crypto_fetch"
    /\ UNCHANGED << start_date, end_date, base_currency, _stopped, top, idx,
                    result, cache, responses, stopAt >>
    /\ UNCHANGED directVars

\* The database raising inside save_*_cache (sqlite3.connect, executemany or
\* commit: a locked or unwritable file); nothing is committed then.  An
\* empty frame returns before the database is opened.
CryptoSave(c, coin_id, hist_df, dbFails) ==
    IF dbFails /\ hist_df # <<>>
    THEN [raised |-> TRUE, cache |-> c]
    ELSE save_crypto_cache(c, coin_id, hist_df)

FiatSave(c, code, hist_df, dbFails) ==
    IF dbFails /\ hist_df # <<>>
    THEN [raised |-> TRUE, cache |-> c]
    ELSE save_fiat_cache(c, code, hist_df)

\* Mutant: the summary is inserted at the head of the list.
PrependSummary(list, summary) == <<summary>> \o list

\* Lines 186, 252: list.append.
AppendSummary(list, summary) == Append(list, summary)

\* Mutant: a failed cache write discards the in-memory series.
DroppedAfterSave(fetch, saved) ==
    IF saved.raised
    THEN [failed |-> fetch.failed, avg |-> Missing, hist_df |-> <<>>]
    ELSE fetch

\* Lines 178-182, 246-250: the try around save_*_cache only logs; avg and
\* hist_df are what the fetch left.
AfterSave(fetch, saved) == fetch

\* Mutant: an entity whose fetch failed is given the rows the cache holds
\* for it in the requested range.
CryptoSummaryFromCache(coin, fetch) ==
    [id |-> coin.id, name |-> coin.name,
     avg_price |-> fetch.avg,
     history |-> IF fetch.failed
                 THEN load_crypto_cache(cache, coin.id, start_date, end_date)
                 ELSE fetch.hist_df]

\* Lines 184-191: the summary appended to result["cryptos"].
CryptoSummary(coin, fetch) ==
    [id |-> coin.id, name |-> coin.name,
     avg_price |-> fetch.avg, history |-> fetch.hist_df]

\* Lines 252-257: the summary appended to result["fiats"].
FiatSummary(fiat, fetch) ==
    [code |-> fiat.code, name |-> fiat.name,
     avg_rate |-> fetch.avg, history |-> fetch.hist_df]

\* Lines 173-174, 178-182, 193: what a crypto entity emits once its fetch is over.
CryptoSignals(name, fetch, saved, current, total) ==
    (IF fetch.failed THEN <<Log("Failed loading", name)>> ELSE <<>>)
    \o <<IF saved.raised THEN Log("Failed saving cache for", name)
                         ELSE Log("Saved cache for", name)>>
    \o <<Progress(current, total)>>

\* Lines 241-242, 246-250, 259: what a fiat entity emits once its fetch is over.
FiatSignals(name, fetch, saved, current, total) ==
    (IF fetch.failed THEN <<Log("Failed loading fiat", name)>> ELSE <<>>)
    \o <<IF saved.raised THEN Log("Failed saving cache for fiat", name)
                         ELSE Log("Saved cache for fiat", name)>>
    \o <<Progress(current, total)>>

\* Lines 162-193: the history call returns or raises; the entity is averaged,
\* cached, appended and counted.
CryptoComplete ==
    /\ pc = "crypto_fetch"
    /\ \E resp \in CryptoResponses(start_date, end_date), dbFails \in BOOLEAN :
          LET coin == top[idx + 1]
              fetch == CryptoFetch(resp)
              saved == CryptoSave(cache, coin.id, fetch.hist_df, dbFails)
          IN  /\ cache' = saved.cache
              /\ result' = [result EXCEPT
                               !.cryptos = AppendSummary(@, CryptoSummary(
                                               coin, AfterSave(fetch, saved)))]
              /\ events' = events \o CryptoSignals(coin.name, fetch, saved,
                                                   idx + 1, Len(top))
              /\ responses' = [responses EXCEPT
                                  !.cryptos = Append(@, [resp |-> resp,
                                                         dbFailed |-> saved.raised])]
    /\ idx' = idx + 1
    /\ pc' = "crypto_loop"
    /\ UNCHANGED << start_date, end_date, base_currency, _stopped, top, calls,
                    stopAt >>
    /\ UNCHANGED directVars

\* Mutant: the stop flag is cleared when the crypto loop is left.
CryptoLoopEndClearsStop ==
    /\ pc = "crypto_loop"
    /\ (idx >= Len(top) \/ CryptoStopCheck)
    /\ pc' = "fiat_loop"
    /\ idx' = 0
    /\ _stopped' = FALSE
    /\ UNCHANGED << start_date, end_date, base_currency, top, result,
                    events, cache, calls, responses, stopAt >>
    /\ UNCHANGED directVars

\* Lines 155-157, 209-210: the crypto loop ends, by exhaustion or by break.
CryptoLoopEnd ==
    /\ pc = "crypto_loop"
    /\ (idx >= Len(top) \/ CryptoStopCheck)
    /\ pc' = "fiat_loop"
    /\ idx' = 0
    /\ UNCHANGED << start_date, end_date, base_currency, _stopped, top, result,
                    events, cache, calls, responses, stopAt >>
    /\ UNCHANGED directVars

\* The tail of a fiat iteration (lines 246-259) for the fetch outcome `fetch`.
FiatAppend(fetch, via, resp, dbFails) ==
    LET fiat == fiats[idx + 1]
        saved == FiatSave(cache, fiat.code, fetch.hist_df, dbFails)
    IN  /\ cache' = saved.cache
        /\ result' = [result EXCEPT
                       !.fiats = AppendSummary(@, FiatSummary(
                                     fiat, AfterSave(fetch, saved)))]
        /\ events' = events \o FiatSignals(fiat.name, fetch, saved,
                                           Len(top) + idx + 1,
                                           Len(top) + Len(fiats))
        /\ responses' = [responses EXCEPT
                            !.fiats = Append(@, [via |-> via, resp |-> resp,
                                                 direct |-> IF via = "inverse"
                                                            THEN responses.direct
                                                            ELSE resp,
                                                 dbFailed |-> saved.raised])]
        /\ idx' = idx + 1
        /\ pc' = "fiat_loop"

\* Lines 212-221, 246-259: an iteration whose code is the base currency; no
\* download is made.
FiatBaseEntity ==
    /\ pc = "fiat_loop"
    /\ idx < Len(fiats)
    /\ ~FiatStopCheck
    /\ fiats[idx + 1].code = base_currency
    /\ \E dbFails \in BOOLEAN :
          LET fiat == fiats[idx + 1]
              fetch == FiatBase(start_date, end_date)
              saved == FiatSave(cache, fiat.code, fetch.hist_df, dbFails)
          IN  /\ cache' = saved.cache
              /\ result' = [result EXCEPT
                               !.fiats = AppendSummary(@, FiatSummary(
                                             fiat, AfterSave(fetch, saved)))]
              /\ events' = events
                     \o <<Log("Loading fiat data for", fiat.name)>>
                     \o FiatSignals(fiat.name, fetch, saved, Len(top) + idx + 1,
                                    Len(top) + Len(fiats))
              /\ responses' = [responses EXCEPT
                                  !.fiats = Append(@, [via |-> "base",
                                                       resp |-> NoDownload,
                                                       direct |-> NoDownload,
                                                       dbFailed |-> saved.raised])]
    /\ idx' = idx + 1
    /\ pc' = "fiat_loop"
    /\ UNCHANGED << start_date, end_date, base_currency, _stopped, top, calls,
                    stopAt >>
    /\ UNCHANGED directVars

\* Lines 212-224: the stop check passes, the entity is announced and the
\* direct pair is requested.
FiatBegin ==
    /\ pc = "fiat_loop"
    /\ idx < Len(fiats)
    /\ ~FiatStopCheck
    /\ fiats[idx + 1].code # base_currency
    /\ events' = Append(events, Log("Loading fiat data for", fiats[idx + 1].name))
    /\ calls' = Append(calls, [fn |-> "yf.download",
                               who |-> fiats[idx + 1].code,
                               arg |-> <<fiats[idx + 1].code, base_currency>>])
    /\ pc' = "fiat_direct"
    /\ UNCHANGED << start_date, end_date, base_currency, _stopped, top, idx,
                    result, cache, responses, stopAt >>
    /\ UNCHANGED directVars

\* Mutant: the inverted pair is tried after a failed download as well.
InverseAlsoAfterRaise(resp) == resp.df = <<>>

\* Line 225: if df.empty, df being what the download of the direct pair
\* returned (a download that raised never gets there).
DirectIsEmpty(resp) == ~resp.raises /\ resp.df = <<>>

\* Lines 224-225, 234-259: the direct pair raises or returns data.
FiatDirectReturns ==
    /\ pc = "fiat_direct"
    /\ \E resp \in Downloads(DirectFrame(start_date, end_date)),
          dbFails \in BOOLEAN :
          /\ ~DirectIsEmpty(resp)
          /\ FiatAppend(IF resp.raises THEN FiatFailed
                                       ELSE FiatFrameSummary(resp.df),
                        "direct", resp, dbFails)
    /\ UNCHANGED << start_date, end_date, base_currency, _stopped, top, calls,
                    stopAt >>
    /\ UNCHANGED directVars

\* Lines 225-227: the direct pair returns an empty frame; the inverted pair
\* is requested.
FiatDirectEmpty ==
    /\ pc = "fiat_direct"
    /\ \E resp \in Downloads(DirectFrame(start_date, end_date)) :
          /\ DirectIsEmpty(resp)
          /\ responses' = [responses EXCEPT !.direct = resp]
    /\ calls' = Append(calls, [fn |-> "yf.download",
                               who |-> fiats[idx + 1].code,
                               arg |-> <<base_currency, fiats[idx + 1].code>>])
    /\ pc' = "fiat_inverse"
    /\ UNCHANGED << start_date, end_date, base_currency, _stopped, top, idx,
                    result, events, cache, stopAt >>
    /\ UNCHANGED directVars

\* Lines 227-259: the inverted pair raises, returns data or returns nothing.
FiatInverseReturns ==
    /\ pc = "fiat_inverse"
    /\ \E resp \in Downloads(InverseFrame(start_date, end_date)),
          dbFails \in BOOLEAN :
          FiatAppend(IF resp.raises THEN FiatFailed
                     ELSE FiatFrameSummary(Reciprocal(resp.df)),
                     "inverse", resp, dbFails)
    /\ UNCHANGED << start_date, end_date, base_currency, _stopped, top, calls,
                    stopAt >>
    /\ UNCHANGED directVars

\* Mutant: a log line follows the result.
FinishThenLogs ==
    /\ pc = "fiat_loop"
    /\ (idx >= Len(fiats) \/ FiatStopCheck)
    /\ events' = events \o <<Finished(result), Log("Load finished", "")>>
    /\ pc' = "done"
    /\ UNCHANGED << start_date, end_date, base_currency, _stopped, top, idx,
                    result, cache, calls, responses, stopAt >>
    /\ UNCHANGED directVars

\* Lines 212-214, 261: the fiat loop ends, by exhaustion or by break, and the
\* result is emitted.
Finish ==
    /\ pc = "fiat_loop"
    /\ (idx >= Len(fiats) \/ FiatStopCheck)
    /\ events' = Append(events, Finished(result))
    /\ pc' = "done"
    /\ UNCHANGED << start_date, end_date, base_currency, _stopped, top, idx,
                    result, cache, calls, responses, stopAt >>
    /\ UNCHANGED directVars

Next ==
    \/ Stop
    \/ RankingReturns
    \/ RankingRaises
    \/ CryptoBegin
    \/ CryptoComplete
    \/ CryptoLoopEnd
    \/ FiatBaseEntity
    \/ FiatBegin
    \/ FiatDirectReturns
    \/ FiatDirectEmpty
    \/ FiatInverseReturns
    \/ Finish

Spec == Init /\ [][Next]_vars

\* ----------------------------------------------------- direct cache calls
\* The cache functions called on their own, on the database an earlier run
\* left behind.

\* The value last written under each key of SeededCache.
SeededWrites ==
    LET d == SetMin(Days)
    IN  [k \in {<<"crypto_prices", Market[1].id, d>>,
                <<"fiat_rates", FIATS[1].code, d>>} |->
            [value |-> IF k[1] = "crypto_prices" THEN Num(7, 1) ELSE Num(9, 1),
             rewritten |-> FALSE]]

\* The entities the direct calls write.
DirectCoin == Market[2].id

DirectCode == FIATS[2].code

\* The rows a batch is made of: a price, another price or no price on the
\* first day, a price on the last day, and a row whose date cannot be parsed.
BatchPoints ==
    {[date |-> SetMin(Days), value |-> v] :
        v \in {Num(1, 1), Num(2, 1), Missing}}
    \cup {[date |-> SetMax(Days), value |-> Num(2, 1)]}
    \cup {[date |-> BadDate, value |-> Num(1, 1)]}

Batches == UNION {[1 .. n -> BatchPoints] : n \in 0 .. MaxBatch}

\* The value last written under each key, and whether the key was written
\* before, once the rows of df are written in
\* order under (table, entity).
RECURSIVE Written(_, _, _, _)
Written(lw, table, entity, df) ==
    IF df = <<>> THEN lw
    ELSE LET key == <<table, entity, Head(df).date>>
             nxt == [k \in DOMAIN lw \cup {key} |->
                        IF k = key
                        THEN [value |-> Head(df).value,
                              rewritten |-> key \in DOMAIN lw]
                        ELSE lw[k]]
         IN  Written(nxt, table, entity, Tail(df))

InitDirect ==
    /\ start_date = SetMin(Days)
    /\ end_date = SetMin(Days)
    /\ base_currency = "USD"
    /\ _stopped = FALSE
    /\ pc = "idle"
    /\ top = <<>>
    /\ idx = 0
    /\ result = [cryptos |-> <<>>, fiats |-> <<>>]
    /\ events = <<>>
    /\ cache = SeededCache
    /\ cache0 = SeededCache
    /\ calls = <<>>
    /\ responses = [ranking |-> "pending", cryptos |-> <<>>, fiats |-> <<>>,
                    direct |-> NoDownload]
    /\ stopAt = NotStopped
    /\ lastWrite = SeededWrites
    /\ loaded = <<>>
    /\ twice = cache
    /\ ncalls = 0
    /\ saveCall = NoCall
    /\ workers = NoWorkers
    /\ AppIdle

\* save_crypto_cache(coin_id, df), lines 43-71.
SaveCryptoCall ==
    /\ ncalls < MaxCalls
    /\ \E df \in Batches :
          LET r == save_crypto_cache(cache, DirectCoin, df)
          IN  /\ cache' = r.cache
              /\ lastWrite' = IF r.raised THEN lastWrite
                              ELSE Written(lastWrite, "crypto_prices",
                                           DirectCoin, df)
              /\ twice' = save_crypto_cache(r.cache, DirectCoin, df).cache
    /\ loaded' = <<>>
    /\ ncalls' = ncalls + 1
    /\ UNCHANGED << cache0, saveCall >>
    /\ UNCHANGED otherVars
    /\ UNCHANGED runVars

\* save_fiat_cache(code, df), lines 88-112.
SaveFiatCall ==
    /\ ncalls < MaxCalls
    /\ \E df \in Batches :
          LET r == save_fiat_cache(cache, DirectCode, df)
          IN  /\ cache' = r.cache
              /\ lastWrite' = IF r.raised THEN lastWrite
                              ELSE Written(lastWrite, "fiat_rates",
                                           DirectCode, df)
              /\ twice' = save_fiat_cache(r.cache, DirectCode, df).cache
    /\ loaded' = <<>>
    /\ ncalls' = ncalls + 1
    /\ UNCHANGED << cache0, saveCall >>
    /\ UNCHANGED otherVars
    /\ UNCHANGED runVars

\* load_crypto_cache(coin_id, start_date, end_date), lines 73-86.
LoadCryptoCall ==
    /\ ncalls < MaxCalls
    /\ \E coin \in {Market[1].id, DirectCoin}, start \in Days, end \in Days :
          loaded' = load_crypto_cache(cache, coin, start, end)
    /\ ncalls' = ncalls + 1
    /\ UNCHANGED << cache, cache0, lastWrite, twice, saveCall >>
    /\ UNCHANGED otherVars
    /\ UNCHANGED runVars

\* load_fiat_cache(code, start_date, end_date), lines 114-127.
LoadFiatCall ==
    /\ ncalls < MaxCalls
    /\ \E code \in {FIATS[1].code, DirectCode}, start \in Days, end \in Days :
          loaded' = load_fiat_cache(cache, code, start, end)
    /\ ncalls' = ncalls + 1
    /\ UNCHANGED << cache, cache0, lastWrite, twice, saveCall >>
    /\ UNCHANGED otherVars
    /\ UNCHANGED runVars

NextDirect ==
    \/ SaveCryptoCall
    \/ SaveFiatCall
    \/ LoadCryptoCall
    \/ LoadFiatCall

SpecCache == InitDirect /\ [][NextDirect]_vars

\* ------------------------------------------------------- one save call
\* One call of save_crypto_cache / save_fiat_cache, with any argument, on a
\* database that is empty or holds the rows of an earlier run.

\* The df argument: None, or a frame (pd.DataFrame() being the frame without
\* rows).
SaveArgs ==
    {[none |-> TRUE, rows |-> <<>>]}
    \cup {[none |-> FALSE, rows |-> b] : b \in Batches}

\* The entities the call writes: the ones SeededCache holds rows of.
SavedCoin == Market[1].id

SavedCode == FIATS[1].code

InitSave ==
    /\ start_date = SetMin(Days)
    /\ end_date = SetMin(Days)
    /\ base_currency = "USD"
    /\ _stopped = FALSE
    /\ pc = "idle"
    /\ top = <<>>
    /\ idx = 0
    /\ result = [cryptos |-> <<>>, fiats |-> <<>>]
    /\ events = <<>>
    /\ cache \in InitialCaches
    /\ cache0 = cache
    /\ calls = <<>>
    /\ responses = [ranking |-> "pending", cryptos |-> <<>>, fiats |-> <<>>,
                    direct |-> NoDownload]
    /\ stopAt = NotStopped
    /\ lastWrite = <<>>
    /\ loaded = <<>>
    /\ twice = cache
    /\ ncalls = 0
    /\ \E fn \in {"save_crypto_cache", "save_fiat_cache"}, arg \in SaveArgs :
          saveCall = [fn |-> fn, arg |-> arg, raised |-> FALSE,
                      returned |-> FALSE]
    /\ workers = NoWorkers
    /\ AppIdle

\* Line 44: if df is None or df.empty: return, before the database is opened.
SaveCryptoArg(c, coin_id, arg) ==
    IF arg.none THEN [raised |-> FALSE, cache |-> c]
    ELSE save_crypto_cache(c, coin_id, arg.rows)

\* Line 89: the same in save_fiat_cache.
SaveFiatArg(c, code, arg) ==
    IF arg.none THEN [raised |-> FALSE, cache |-> c]
    ELSE save_fiat_cache(c, code, arg.rows)

\* save_crypto_cache(coin_id, df), lines 43-71, returns or raises.
SaveCryptoEnds ==
    /\ saveCall.fn = "save_crypto_cache"
    /\ ~saveCall.returned
    /\ LET r == SaveCryptoArg(cache, SavedCoin, saveCall.arg)
       IN  /\ cache' = r.cache
           /\ saveCall' = [saveCall EXCEPT !.raised = r.raised,
                                           !.returned = TRUE]
    /\ UNCHANGED << cache0, lastWrite, loaded, twice, ncalls >>
    /\ UNCHANGED otherVars
    /\ UNCHANGED runVars

\* save_fiat_cache(code, df), lines 88-112, returns or raises.
SaveFiatEnds ==
    /\ saveCall.fn = "save_fiat_cache"
    /\ ~saveCall.returned
    /\ LET r == SaveFiatArg(cache, SavedCode, saveCall.arg)
       IN  /\ cache' = r.cache
           /\ saveCall' = [saveCall EXCEPT !.raised = r.raised,
                                           !.returned = TRUE]
    /\ UNCHANGED << cache0, lastWrite, loaded, twice, ncalls >>
    /\ UNCHANGED otherVars
    /\ UNCHANGED runVars

NextSave ==
    \/ SaveCryptoEnds
    \/ SaveFiatEnds

SpecSave == InitSave /\ [][NextSave]_vars

\* ------------------------------------------------- a run or one save call
\* The program doing either: a DataWorker run, or one save_*_cache call.
InitRunOrSave == Init \/ InitSave

NextRunOrSave == Next \/ NextSave

SpecRunOrSave == InitRunOrSave /\ [][NextRunOrSave]_vars

\* ------------------------------------------------------ two concurrent runs
\* Two DataWorker runs (two instances of the program in one directory) that
\* share crypto_cache.db, followed through their cache writes.  A write is a
\* transaction of its own connection: executemany takes the write lock of the
\* database file, commit publishes the rows and releases it; a writer that
\* finds the lock taken waits in executemany.
Writers == {1, 2}

\* The entities a run walks through: the ranked cryptos, then the fiats.
RunEntities ==
    [i \in 1 .. Min(MaxCoins, PerPage) |->
        [table |-> "crypto_prices", entity |-> Market[i].id]]
    \o [i \in 1 .. Len(fiats) |->
           [table |-> "fiat_rates", entity |-> fiats[i].code]]

\* The two runs price in different base currencies: run w gets the value w.
RunValue(w) == Num(w, 1)

\* The history run w computes for an entity whose fetch gave data: run 1
\* asks for every day, run 2 for the first day only.
RunFrame(w) ==
    ConstantFrame(DateRange(SetMin(Days),
                            IF w = 1 THEN SetMax(Days) ELSE SetMin(Days)),
                  RunValue(w))

\* hist_df of an entity: empty (the fetch failed or gave nothing) or the frame.
RunFrames(w) == {<<>>, RunFrame(w)}

InitTwoRuns ==
    /\ start_date = SetMin(Days)
    /\ end_date = SetMax(Days)
    /\ base_currency = "USD"
    /\ _stopped = FALSE
    /\ pc = "idle"
    /\ top = <<>>
    /\ idx = 0
    /\ result = [cryptos |-> <<>>, fiats |-> <<>>]
    /\ events = <<>>
    /\ cache = SeededCache
    /\ cache0 = SeededCache
    /\ calls = <<>>
    /\ responses = [ranking |-> "pending", cryptos |-> <<>>, fiats |-> <<>>,
                    direct |-> NoDownload]
    /\ stopAt = NotStopped
    /\ lastWrite = SeededWrites
    /\ loaded = <<>>
    /\ twice = cache
    /\ ncalls = 0
    /\ saveCall = NoCall
    /\ workers = [run |-> [w \in Writers |->
                              [idx |-> 0, phase |-> "loop", batch |-> <<>>]],
                  lock |-> 0]
    /\ AppIdle

\* Lines 162-179 / 216-247, 44-59: run w has fetched its next entity and calls
\* save_*_cache with hist_df; an empty frame returns at once.
WorkerSaves(w) ==
    LET me == workers.run[w]
    IN  /\ me.phase = "loop"
        /\ me.idx < Len(RunEntities)
        /\ \E df \in RunFrames(w) :
              workers' = [workers EXCEPT !.run[w] =
                             IF df = <<>>
                             THEN [me EXCEPT !.idx = @ + 1]
                             ELSE [me EXCEPT !.phase = "connected",
                                             !.batch = df]]
        /\ UNCHANGED << cache, cache0, lastWrite, loaded, twice, ncalls,
                        saveCall >>
        /\ UNCHANGED appVars
        /\ UNCHANGED runVars

\* Lines 68-69 / 109-110: executemany starts the transaction of run w; it
\* goes ahead once no other connection holds the write lock.
WorkerExecutes(w) ==
    LET me == workers.run[w]
    IN  /\ me.phase = "connected"
        /\ workers.lock = 0
        /\ workers' = [workers EXCEPT !.run[w].phase = "written", !.lock = w]
        /\ UNCHANGED << cache, cache0, lastWrite, loaded, twice, ncalls,
                        saveCall >>
        /\ UNCHANGED appVars
        /\ UNCHANGED runVars

\* Lines 70-71 / 111-112: commit publishes the rows of run w and releases the
\* lock; the run goes on to its next entity.
WorkerCommits(w) ==
    LET me == workers.run[w]
        at == RunEntities[me.idx + 1]
        r == IF at.table = "crypto_prices"
             THEN save_crypto_cache(cache, at.entity, me.batch)
             ELSE save_fiat_cache(cache, at.entity, me.batch)
    IN  /\ me.phase = "written"
        /\ cache' = r.cache
        /\ lastWrite' = Written(lastWrite, at.table, at.entity, me.batch)
        /\ workers' = [workers EXCEPT
                          !.run[w] = [idx |-> me.idx + 1, phase |-> "loop",
                                      batch |-> <<>>],
                          !.lock = 0]
        /\ UNCHANGED << cache0, loaded, twice, ncalls, saveCall >>
        /\ UNCHANGED appVars
        /\ UNCHANGED runVars

NextTwoRuns ==
    \E w \in Writers :
        \/ WorkerSaves(w)
        \/ WorkerExecutes(w)
        \/ WorkerCommits(w)

SpecTwoRuns == InitTwoRuns /\ [][NextTwoRuns]_vars

\* ------------------------------------------------------------ the window
\* MarketApp, from its construction through its first load to the start of
\* the next: the worker of the first load is followed through its run, the
\* handlers of its signals run on the event loop of the window.  on_progress
\* and on_log only draw; they are left out.

InitApp ==
    /\ start_date = SetMin(Days)
    /\ end_date = SetMin(Days)
    /\ base_currency = "USD"
    /\ _stopped = FALSE
    /\ pc = "idle"
    /\ top = <<>>
    /\ idx = 0
    /\ result = [cryptos |-> <<>>, fiats |-> <<>>]
    /\ events = <<>>
    /\ cache \in InitialCaches
    /\ cache0 = cache
    /\ calls = <<>>
    /\ responses = [ranking |-> "pending", cryptos |-> <<>>, fiats |-> <<>>,
                    direct |-> NoDownload]
    /\ stopAt = NotStopped
    /\ lastWrite = <<>>
    /\ loaded = <<>>
    /\ twice = cache
    /\ ncalls = 0
    /\ saveCall = NoCall
    /\ workers = NoWorkers
    /\ AppIdle

\* Mutant: on_load leaves the button as it is.
LoadBtnLeftEnabled == TRUE

\* Line 346: self.load_btn.setEnabled(False).
LoadBtnWhileLoading == FALSE

\* Line 343: if start > end.
InvalidDates(start, end) == start > end

\* Lines 339-360: on_load, the slot of load_btn.clicked (a disabled button
\* emits no clicked).  With start > end a warning is shown and nothing else
\* happens; otherwise the button is disabled and a worker is made and started.
\* The worker of a later load is not followed: its fields are not kept.
on_load ==
    /\ load_btn
    /\ IF worker = "none"
       THEN \E start \in Days, end \in Days, base \in BaseInputs :
               IF InvalidDates(start, end)
               THEN /\ dialog' = "warning"
                    /\ UNCHANGED << load_btn, worker, data >>
                    /\ UNCHANGED runVars
               ELSE /\ load_btn' = LoadBtnWhileLoading
                    /\ dialog' = "none"
                    /\ worker' = "started"
                    /\ start_date' = start
                    /\ end_date' = end
                    /\ base_currency' = Upper(base)
                    /\ _stopped' = FALSE
                    /\ pc' = "ranking"
                    /\ UNCHANGED << top, idx, result, events, calls,
                                    responses, stopAt, data >>
       ELSE \E invalid \in {InvalidDates(start, end) :
                                start \in Days, end \in Days} :
               IF invalid
               THEN /\ dialog' = "warning"
                    /\ UNCHANGED << load_btn, worker, data >>
                    /\ UNCHANGED runVars
               ELSE /\ load_btn' = LoadBtnWhileLoading
                    /\ dialog' = "none"
                    /\ worker' = "next"
                    /\ UNCHANGED data
                    /\ UNCHANGED runVars
    /\ UNCHANGED << cache, cache0, lastWrite, loaded, twice, ncalls, saveCall,
                    workers >>

\* Lines 378-388: on_data_ready, the slot of the worker's finished signal.
on_data_ready ==
    /\ worker = "started"
    /\ events # <<>>
    /\ events[Len(events)].sig = "finished"
    /\ data' = <<events[Len(events)].result>>
    /\ load_btn' = TRUE
    /\ dialog' = "none"
    /\ worker' = "handled"
    /\ UNCHANGED << cache, cache0, lastWrite, loaded, twice, ncalls, saveCall,
                    workers >>
    /\ UNCHANGED runVars

\* Lines 371-374: on_error, the slot of the worker's error signal, up to the
\* message box it shows; QMessageBox.critical returns when the user closes it.
on_error ==
    /\ worker = "started"
    /\ dialog # "critical"
    /\ events # <<>>
    /\ events[Len(events)].sig = "error"
    /\ dialog' = "critical"
    /\ UNCHANGED << load_btn, worker, data >>
    /\ UNCHANGED << cache, cache0, lastWrite, loaded, twice, ncalls, saveCall,
                    workers >>
    /\ UNCHANGED runVars

\* Lines 374-376: the user closes the message box and on_error goes on.
on_error_closed ==
    /\ worker = "started"
    /\ dialog = "critical"
    /\ load_btn' = TRUE
    /\ worker' = "handled"
    /\ UNCHANGED << data, dialog >>
    /\ UNCHANGED << cache, cache0, lastWrite, loaded, twice, ncalls, saveCall,
                    workers >>
    /\ UNCHANGED runVars

\* The steps of the worker's thread: MarketApp never calls stop().
RunStep ==
    \/ RankingReturns
    \/ RankingRaises
    \/ CryptoBegin
    \/ CryptoComplete
    \/ CryptoLoopEnd
    \/ FiatBaseEntity
    \/ FiatBegin
    \/ FiatDirectReturns
    \/ FiatDirectEmpty
    \/ FiatInverseReturns
    \/ Finish

NextApp ==
    \/ RunStep
    \/ on_load
    \/ on_data_ready
    \/ on_error
    \/ on_error_closed

SpecApp == InitApp /\ [][NextApp]_vars

\* ----------------------------------------- the window, with stop() and time
\* stop() may be called on the started worker by any holder of the object.
\* The worker's thread keeps running and every blocking call returns, so a
\* step of run that can be taken is taken; Qt's event loop delivers every
\* queued signal, so the slot of an emitted terminal event is entered.  When
\* the user clicks Load or closes a message box is up to the user.
NextAppStop ==
    \/ NextApp
    \/ Stop

SpecAppFair ==
    /\ InitApp
    /\ [][NextAppStop]_vars
    /\ WF_vars(RunStep)
    /\ WF_vars(on_data_ready)
    /\ WF_vars(on_error)

\* ------------------------------------------------------------------ claims
Terminals == {i \in 1 .. Len(events) : events[i].sig \in {"finished", "error"}}

Emitted == {events[i].result : i \in {j \in 1 .. Len(events) : events[j].sig = "finished"}}

Entity(x) == [id |-> x.id, name |-> x.name]

FiatEntity(x) == [code |-> x.code, name |-> x.name]

\* The entities of a list of summaries, in order.
CryptoEntities(list) == [i \in 1 .. Len(list) |-> Entity(list[i])]

FiatEntities(list) == [i \in 1 .. Len(list) |-> FiatEntity(list[i])]

\* stop() was called before the run emitted its terminal event.
StoppedInRun == stopAt.called /\ stopAt.pc # "done"

\* The run stood inside an entity (its stop check passed, its summary not yet
\* appended) when stop() was called.
InFlight(at) == at \in {"crypto_fetch", "fiat_direct", "fiat_inverse"}

C2_OneTerminalEventLast ==
    /\ Cardinality(Terminals) <= 1
    /\ \A i \in Terminals : i = Len(events)
    /\ (pc = "done") <=> (Terminals # {})

\* A run ended with finished after progress and log events.
C2_Witness ==
    /\ pc = "done"
    /\ Len(events) > 4
    /\ events[Len(events)].sig = "finished"
    /\ \E i \in 1 .. Len(events) : events[i].sig = "progress"

\* C3: stop() called when k entities of the ranking are complete, k smaller
\* than the ranking, and before the stop check of entity k+1: the run ends with
\* finished, its result holding the first k ranked entities and no fiat.
C3_StopBetweenCryptos ==
    (/\ pc = "done"
     /\ stopAt.called
     /\ stopAt.pc \in {"ranking", "crypto_loop"}
     /\ stopAt.idx < Len(top))
    => /\ events[Len(events)].sig = "finished"
       /\ \A i \in 1 .. Len(events) : events[i].sig # "error"
       /\ LET r == events[Len(events)].result
          IN  /\ CryptoEntities(r.cryptos) = SubSeq(top, 1, stopAt.idx)
              /\ r.cryptos = SubSeq(result.cryptos, 1, stopAt.nsum)
              /\ stopAt.nsum = stopAt.idx
              /\ r.fiats = <<>>

\* stop() came after the first of two ranked entities was complete.
C3_Witness ==
    /\ pc = "done"
    /\ stopAt.called
    /\ stopAt.pc = "crypto_loop"
    /\ stopAt.idx = 1
    /\ Len(top) = 2
    /\ Len(result.cryptos) = 1

\* The entity the run stood in when stop() was called.
EntityAtStop ==
    IF stopAt.pc = "crypto_fetch" THEN top[stopAt.idx + 1].id
    ELSE fiats[stopAt.idx + 1].code

HasLog(msg, who) ==
    \E i \in 1 .. Len(events) :
        events[i].sig = "log" /\ events[i].msg = msg /\ events[i].who = who

\* C5: an entity whose provider call raised has a summary with an empty
\* history and no average and a failure line in the log; error is emitted
\* only when no entity was ever begun; the loop stands at the next entity, so
\* that a run not stopped ends with every entity in its result.
C5_EntityFailureIsolated ==
    /\ \A i \in 1 .. Len(responses.cryptos) :
          responses.cryptos[i].resp.raises =>
              /\ result.cryptos[i].history = <<>>
              /\ result.cryptos[i].avg_price = Missing
              /\ HasLog("Failed loading", result.cryptos[i].name)
    /\ \A i \in 1 .. Len(responses.fiats) :
          responses.fiats[i].resp.raises =>
              /\ result.fiats[i].history = <<>>
              /\ result.fiats[i].avg_rate = Missing
              /\ HasLog("Failed loading fiat", result.fiats[i].name)
    /\ (\E i \in 1 .. Len(events) : events[i].sig = "error") =>
          calls = <<>> /\ result = [cryptos |-> <<>>, fiats |-> <<>>]
    /\ Len(responses.cryptos) = Len(result.cryptos)
    /\ Len(responses.fiats) = Len(result.fiats)
    /\ pc = "crypto_loop" => idx = Len(result.cryptos)
    /\ pc = "fiat_loop" => idx = Len(result.fiats)
    /\ (pc = "done" /\ ~StoppedInRun /\ responses.ranking = "returned") =>
          /\ Emitted = {result}
          /\ Len(result.cryptos) = Len(top)
          /\ Len(result.fiats) = Len(fiats)

\* The first crypto and the fiat failed, the entities after them were
\* processed, and the run ended with finished.
C5_Witness ==
    /\ pc = "done"
    /\ Len(result.cryptos) = 2
    /\ Len(result.fiats) = 1
    /\ responses.cryptos[1].resp.raises
    /\ ~responses.cryptos[2].resp.raises
    /\ result.cryptos[2].history # <<>>
    /\ responses.fiats[1].resp.raises
    /\ Emitted = {result}

\* C6: when the ranking call failed, error is the only event of the run (no
\* finished, no progress), no entity was requested, and the cache holds what
\* it held before the run.
C6_RankingFailureAborts ==
    responses.ranking = "raised" =>
        /\ events = <<Error>>
        /\ pc = "done"
        /\ Emitted = {}
        /\ calls = <<>>
        /\ cache = cache0

\* The ranking call failed on a database that held rows.
C6_Witness ==
    /\ responses.ranking = "raised"
    /\ pc = "done"
    /\ cache0 = SeededCache

\* The history and the average the run's samples amount to: the two samples
\* of the first day average to 105, the day without a price has no row.
ExpectedCryptoHistory == <<[date |-> start_date, value |-> Num(105, 1)]>>

\* The frame of the inverted pair, reciprocated by hand.
ExpectedInverseHistory ==
    <<[date |-> start_date, value |-> Num(1, 2)]>>
    \o (IF end_date > start_date
        THEN <<[date |-> end_date, value |-> Num(1, 4)]>> ELSE <<>>)

\* C7: an entity whose cache write raised keeps, in the result, the history
\* and the average computed from its fetch; the failure is a log line, and
\* the loop stands at the next entity.
C7_CacheWriteFailureKeepsSummary ==
    /\ \A i \in 1 .. Len(responses.cryptos) :
          responses.cryptos[i].dbFailed =>
              /\ responses.cryptos[i].resp.prices
                    = CryptoSamples(start_date, end_date)
              /\ result.cryptos[i].history = ExpectedCryptoHistory
              /\ result.cryptos[i].avg_price = Num(105, 1)
              /\ HasLog("Failed saving cache for", result.cryptos[i].name)
    /\ \A i \in 1 .. Len(responses.fiats) :
          responses.fiats[i].dbFailed =>
              /\ HasLog("Failed saving cache for fiat", result.fiats[i].name)
              /\ responses.fiats[i].via = "base" =>
                    /\ Len(result.fiats[i].history) = end_date - start_date + 1
                    /\ result.fiats[i].avg_rate = One
              /\ responses.fiats[i].via = "direct" =>
                    /\ result.fiats[i].history
                          = DirectFrame(start_date, end_date)
                    /\ result.fiats[i].avg_rate = Num(5, 1)
              /\ responses.fiats[i].via = "inverse" =>
                    /\ result.fiats[i].history = ExpectedInverseHistory
                    /\ result.fiats[i].avg_rate
                          = (IF end_date > start_date THEN Num(3, 8)
                                                      ELSE Num(1, 2))
    /\ Len(responses.cryptos) = Len(result.cryptos)
    /\ Len(responses.fiats) = Len(result.fiats)
    /\ pc = "crypto_loop" => idx = Len(result.cryptos)
    /\ pc = "fiat_loop" => idx = Len(result.fiats)
    /\ (\E i \in 1 .. Len(events) : events[i].sig = "error") =>
          responses.cryptos = <<>> /\ responses.fiats = <<>>

\* The cache write of the first crypto and of an inverted fiat raised, the
\* next entity was processed and the run ended with finished.
C7_Witness ==
    /\ pc = "done"
    /\ Len(result.cryptos) = 2
    /\ Len(result.fiats) = 1
    /\ responses.cryptos[1].dbFailed
    /\ ~responses.cryptos[2].dbFailed
    /\ responses.fiats[1].dbFailed
    /\ responses.fiats[1].via = "inverse"
    /\ Emitted = {result}

\* C10: a fiat whose code is the base currency has one point of value 1.0
\* for every day from start_date to end_date, an average of 1.0, and no
\* provider request was issued for it.
C10_BaseCurrencyIsConstantOne ==
    \A i \in 1 .. Len(result.fiats) :
        result.fiats[i].code = base_currency =>
            LET h == result.fiats[i].history
            IN  /\ Len(h) = end_date - start_date + 1
                /\ \A k \in 1 .. Len(h) :
                      h[k] = [date |-> start_date + k - 1, value |-> One]
                /\ \A day \in start_date .. end_date :
                      \E k \in 1 .. Len(h) : h[k].date = day
                /\ result.fiats[i].avg_rate = One
                /\ \A j \in 1 .. Len(calls) :
                      calls[j].who # result.fiats[i].code

\* A run over two days with base currency EUR has the summary of EUR.
C10_Witness ==
    /\ pc = "done"
    /\ base_currency = "EUR"
    /\ start_date < end_date
    /\ Len(result.fiats) >= 1
    /\ result.fiats[1].code = "EUR"
    /\ Len(result.fiats[1].history) = 2

\* ------------------------------------------------- claims on the cache store
\* C8: after any sequence of save_*_cache calls each table holds one row per
\* (entity, date) that was written, none twice, with the value written last;
\* and the batch of the last call, written a second time, changes nothing.
C8_UpsertLastWriteWins ==
    /\ \A r \in DOMAIN cache.crypto_prices :
          /\ cache.crypto_prices[r] = 1
          /\ \A q \in DOMAIN cache.crypto_prices :
                CryptoKey(q) = CryptoKey(r) => q = r
          /\ <<"crypto_prices", r.coin_id, FromIso(r.Date)>> \in DOMAIN lastWrite
          /\ r.price
                = lastWrite[<<"crypto_prices", r.coin_id, FromIso(r.Date)>>].value
    /\ \A r \in DOMAIN cache.fiat_rates :
          /\ cache.fiat_rates[r] = 1
          /\ \A q \in DOMAIN cache.fiat_rates : FiatKey(q) = FiatKey(r) => q = r
          /\ <<"fiat_rates", r.code, FromIso(r.Date)>> \in DOMAIN lastWrite
          /\ r.Close = lastWrite[<<"fiat_rates", r.code, FromIso(r.Date)>>].value
    /\ \A k \in DOMAIN lastWrite :
          IF k[1] = "crypto_prices"
          THEN \E r \in DOMAIN cache.crypto_prices :
                  r.coin_id = k[2] /\ r.Date = IsoFormat(k[3])
          ELSE \E r \in DOMAIN cache.fiat_rates :
                  r.code = k[2] /\ r.Date = IsoFormat(k[3])
    /\ twice = cache

\* A key of crypto_prices was written a second time, with another value than
\* the first time, beside the rows of two other keys.
C8_Witness ==
    /\ \E k \in DOMAIN lastWrite :
          k[1] = "crypto_prices" /\ lastWrite[k].rewritten
          /\ lastWrite[k].value = Num(2, 1)
    /\ BagCardinality(cache.crypto_prices) = 3

\* The rows of a table that belong to an entity and a range of days, as the
\* points a load returns.
CryptoPointsIn(c, coin_id, start, end) ==
    {[date |-> FromIso(r.Date), value |-> r.price] :
        r \in {x \in DOMAIN c.crypto_prices :
                  x.coin_id = coin_id
                  /\ start <= FromIso(x.Date) /\ FromIso(x.Date) <= end}}

FiatPointsIn(c, code, start, end) ==
    {[date |-> FromIso(r.Date), value |-> r.Close] :
        r \in {x \in DOMAIN c.fiat_rates :
                  x.code = code
                  /\ start <= FromIso(x.Date) /\ FromIso(x.Date) <= end}}

Ascending(out) ==
    \A i \in 1 .. Len(out) : \A j \in 1 .. Len(out) :
        i < j => out[i].date < out[j].date

\* C9: for every entity and start_date <= end_date, load_*_cache returns the
\* rows of the entity dated within [start_date, end_date], each once, by
\* ascending date, and an empty frame when there is none.
C9_LoadReturnsRange ==
    \A start \in Days : \A end \in Days :
        start <= end =>
            /\ \A coin \in {Market[1].id, DirectCoin, Market[3].id} :
                  LET out == load_crypto_cache(cache, coin, start, end)
                      want == CryptoPointsIn(cache, coin, start, end)
                  IN  /\ {out[i] : i \in 1 .. Len(out)} = want
                      /\ Len(out) = Cardinality(want)
                      /\ Ascending(out)
            /\ \A code \in {FIATS[1].code, DirectCode, FIATS[3].code} :
                  LET out == load_fiat_cache(cache, code, start, end)
                      want == FiatPointsIn(cache, code, start, end)
                  IN  /\ {out[i] : i \in 1 .. Len(out)} = want
                      /\ Len(out) = Cardinality(want)
                      /\ Ascending(out)

\* A load returned the two rows of an entity, the table holding a row of
\* another entity as well.
C9_Witness ==
    /\ Len(loaded) = 2
    /\ loaded[1].date < loaded[2].date
    /\ BagCardinality(cache.crypto_prices) = 3

\* ------------------------------------------------ claims on the fiat adapter
\* The requests of the inverted pair of `code` among the calls.
InverseCalls(code) ==
    {j \in 1 .. Len(calls) : calls[j].arg = <<base_currency, code>>}

\* v * w = 1 on two present values.
IsReciprocal(v, w) == IsNum(v) /\ IsNum(w) /\ v.n * w.n = v.d * w.d

\* C11: for a fiat other than the base currency the inverted pair is
\* requested only after the direct pair returned an empty frame, once, right
\* after the request of the direct pair; when the inverted pair returns data
\* the history holds, date by date, the reciprocal of each of its values; when
\* neither pair returns data the history is empty, the average is null and no
\* failure line is logged for the entity.
C11_InverseOnlyWhenDirectEmpty ==
    /\ \A i \in 1 .. Len(responses.fiats) :
          LET r == responses.fiats[i]
              s == result.fiats[i]
          IN  s.code # base_currency =>
                /\ Cardinality(InverseCalls(s.code))
                      = (IF r.via = "inverse" THEN 1 ELSE 0)
                /\ r.via = "inverse" =>
                      /\ ~r.direct.raises
                      /\ r.direct.df = <<>>
                /\ (r.via = "inverse" /\ ~r.resp.raises /\ r.resp.df # <<>>) =>
                      /\ Len(s.history) = Len(r.resp.df)
                      /\ \A k \in 1 .. Len(s.history) :
                            /\ s.history[k].date = r.resp.df[k].date
                            /\ IsReciprocal(s.history[k].value,
                                            r.resp.df[k].value)
                /\ (r.via = "inverse" /\ ~r.resp.raises /\ r.resp.df = <<>>) =>
                      /\ s.history = <<>>
                      /\ s.avg_rate = Missing
                      /\ ~HasLog("Failed loading fiat", s.name)
    /\ \A j \in 1 .. Len(calls) :
          (calls[j].fn = "yf.download" /\ calls[j].arg[1] = base_currency) =>
              /\ j > 1
              /\ calls[j - 1].arg = <<calls[j].arg[2], base_currency>>
    /\ pc = "fiat_inverse" =>
          ~responses.direct.raises /\ responses.direct.df = <<>>

\* The direct pair of a fiat returned nothing and its inverted pair returned
\* the values 2 and 4: the history holds 1/2 and 1/4 on the same two days.
C11_Witness ==
    /\ pc = "done"
    /\ Len(result.fiats) >= 1
    /\ responses.fiats[1].via = "inverse"
    /\ Len(responses.fiats[1].resp.df) = 2
    /\ result.fiats[1].history
          = <<[date |-> start_date, value |-> Num(1, 2)],
              [date |-> end_date, value |-> Num(1, 4)]>>
    /\ Len(calls) >= 2

\* ------------------------------------------------- claims on the progress
IsProgress(ev) == ev.sig = "progress"

\* The progress events of the run, in order.
ProgressEvents == SelectSeq(events, IsProgress)

\* C12 as stated: every progress event carries the total
\* total_steps = (ranked cryptos) + (entries of the fiat list), and the k-th
\* progress event of the run carries the count k, the fiat phase going on from
\* the count of the crypto phase.
C12_ProgressSameTotal ==
    \A k \in 1 .. Len(ProgressEvents) :
        /\ ProgressEvents[k].total = Len(top) + Len(fiats)
        /\ ProgressEvents[k].current = k

\* A run over two ranked entities ended: the progress events of its crypto
\* phase carry the total 2, those of its fiat phase the total 2 + Len(fiats),
\* the counts running 1, 2, 3.
C12_Witness ==
    /\ pc = "done"
    /\ Len(top) = 2
    /\ Len(ProgressEvents) = 2 + Len(fiats)
    /\ ProgressEvents[1] = Progress(1, 2)
    /\ ProgressEvents[2] = Progress(2, 2)
    /\ ProgressEvents[3] = Progress(3, 2 + Len(fiats))

\* ------------------------------------------------- claims on the averages
\* The days of a history that hold a value.
Present(h) == {k \in 1 .. Len(h) : ~h[k].value.isnull}

\* The sum of the present values of the first k points of a history.
RECURSIVE SumPresent(_, _)
SumPresent(h, k) ==
    IF k = 0 THEN Num(0, 1)
    ELSE IF h[k].value.isnull THEN SumPresent(h, k - 1)
    ELSE RatAdd(SumPresent(h, k - 1), h[k].value)

\* avg is null when h holds no value, and otherwise avg times the number of
\* present values is their sum.
IsMeanOf(avg, h) ==
    LET present == Present(h)
    IN  IF present = {} THEN avg = Missing
        ELSE /\ IsNum(avg)
             /\ LET sum == SumPresent(h, Len(h))
                IN  avg.n * Cardinality(present) * sum.d = sum.n * avg.d

\* C13: in every result, emitted or under construction, the average of a
\* summary is null exactly when its history holds no value, and is otherwise
\* the sum of the present values of the history divided by their number.
C13_AverageIsMeanOfPresent ==
    \A r \in Emitted \cup {result} :
        /\ \A i \in 1 .. Len(r.cryptos) :
              IsMeanOf(r.cryptos[i].avg_price, r.cryptos[i].history)
        /\ \A i \in 1 .. Len(r.fiats) :
              IsMeanOf(r.fiats[i].avg_rate, r.fiats[i].history)

\* A result holds a crypto whose fetch failed (no history, no average), a
\* crypto averaging 105, and a fiat whose history is 5 and a missing value,
\* averaging 5.
C13_Witness ==
    /\ pc = "done"
    /\ Emitted = {result}
    /\ Len(result.cryptos) = 2
    /\ result.cryptos[1].history = <<>>
    /\ result.cryptos[1].avg_price = Missing
    /\ result.cryptos[2].avg_price = Num(105, 1)
    /\ Len(result.fiats) >= 1
    /\ result.fiats[1].history
          = <<[date |-> start_date, value |-> Num(5, 1)],
              [date |-> end_date, value |-> Missing]>>
    /\ result.fiats[1].avg_rate = Num(5, 1)

\* ------------------------------------------- claims on one save_*_cache call
\* The rows of the table the call writes, as [entity, Date, value].
SavedTable(c) ==
    IF saveCall.fn = "save_crypto_cache"
    THEN {[entity |-> r.coin_id, Date |-> r.Date, value |-> r.price] :
             r \in DOMAIN c.crypto_prices}
    ELSE {[entity |-> r.code, Date |-> r.Date, value |-> r.Close] :
             r \in DOMAIN c.fiat_rates}

SavedEntity == IF saveCall.fn = "save_crypto_cache" THEN SavedCoin ELSE SavedCode

\* The points of the batch whose date cannot be parsed.
BadPoints(rows) == {i \in 1 .. Len(rows) : rows[i].date = BadDate}

\* C14 as stated: a save_*_cache call given a batch of which one point has a
\* date that cannot be parsed does not raise, the table holds a row for every
\* other point of the batch, and every row it holds either was there before
\* the call or belongs to one of those points.
C14_BadPointSkipped ==
    (/\ saveCall.returned
     /\ Cardinality(BadPoints(saveCall.arg.rows)) = 1)
    => LET rows == saveCall.arg.rows
           good == (1 .. Len(rows)) \ BadPoints(rows)
       IN  /\ ~saveCall.raised
           /\ \A i \in good :
                 \E r \in SavedTable(cache) :
                     r.entity = SavedEntity /\ r.Date = IsoFormat(rows[i].date)
           /\ \A r \in SavedTable(cache) :
                 \/ r \in SavedTable(cache0)
                 \/ \E i \in good :
                       r.entity = SavedEntity
                       /\ r.Date = IsoFormat(rows[i].date)

\* save_crypto_cache was given a point of the last day and a point whose date
\* cannot be parsed: it raised, and the table holds no row of the last day.
C14_Witness ==
    /\ saveCall.fn = "save_crypto_cache"
    /\ saveCall.returned
    /\ Len(saveCall.arg.rows) = 2
    /\ saveCall.arg.rows[1].date = SetMax(Days)
    /\ saveCall.arg.rows[2].date = BadDate
    /\ saveCall.raised
    /\ cache = cache0

\* ------------------------------------------- claims on the rows a run caches
\* The samples of a response that fall on day d / that hold a price as well.
SamplesOn(prices, d) == {k \in 1 .. Len(prices) : ToDay(prices[k].ts) = d}

PricedOn(prices, d) == {k \in SamplesOn(prices, d) : ~prices[k].price.isnull}

\* The sum of the prices of the priced samples of day d among the first k.
RECURSIVE SumPriced(_, _, _)
SumPriced(prices, d, k) ==
    IF k = 0 THEN Num(0, 1)
    ELSE IF ToDay(prices[k].ts) = d /\ ~prices[k].price.isnull
    THEN RatAdd(SumPriced(prices, d, k - 1), prices[k].price)
    ELSE SumPriced(prices, d, k - 1)

\* The rows of crypto_prices under (coin_id, day d).
RowsOf(c, coin_id, d) ==
    {r \in DOMAIN c.crypto_prices : r.coin_id = coin_id /\ r.Date = IsoFormat(d)}

\* The days a sample can fall on: the range of the run and the day after.
SampleSpan == SetMin(Days) .. (SetMax(Days) + 1)

\* C15 as stated: for a crypto entity whose fetch succeeded (and whose cache
\* write went through) the cache holds a row for every day on which the
\* provider returned at least one sample.
C15_RowPerSampledDay ==
    \A i \in 1 .. Len(responses.cryptos) :
        (~responses.cryptos[i].resp.raises /\ ~responses.cryptos[i].dbFailed) =>
            \A d \in SampleSpan :
                SamplesOn(responses.cryptos[i].resp.prices, d) # {}
                    => RowsOf(cache, result.cryptos[i].id, d) # {}

\* C15 amended: for a crypto entity whose fetch succeeded and whose cache
\* write did not raise, the cache holds under (coin_id, d) one row with the
\* mean of the day's priced samples when the provider returned at least one
\* sample with a price for day d, and otherwise the rows it held before the
\* run (none written); no row holds the price 0.
C15_RowPerPricedDay ==
    /\ \A i \in 1 .. Len(responses.cryptos) :
          (~responses.cryptos[i].resp.raises /\ ~responses.cryptos[i].dbFailed)
          => LET prices == responses.cryptos[i].resp.prices
                 coin == result.cryptos[i].id
             IN  \A d \in SampleSpan :
                     LET priced == PricedOn(prices, d)
                         rows == RowsOf(cache, coin, d)
                     IN  IF priced # {}
                         THEN /\ Cardinality(rows) = 1
                              /\ \A r \in rows :
                                    /\ cache.crypto_prices[r] = 1
                                    /\ IsNum(r.price)
                                    /\ LET sum == SumPriced(prices, d,
                                                            Len(prices))
                                       IN  r.price.n * sum.d * Cardinality(priced)
                                           = sum.n * r.price.d
                         ELSE rows = RowsOf(cache0, coin, d)
    /\ \A r \in DOMAIN cache.crypto_prices : r.price # Num(0, 1)

\* Over two days the provider returned two priced samples for the first day
\* and a sample without a price for the last: the cache, which held a row of
\* the entity, holds 105 under the first day and no row under the last.
C15_Witness ==
    /\ pc = "done"
    /\ start_date < end_date
    /\ cache0 = SeededCache
    /\ Len(responses.cryptos) >= 1
    /\ responses.cryptos[1].resp.prices = CryptoSamples(start_date, end_date)
    /\ ~responses.cryptos[1].dbFailed
    /\ \E r \in RowsOf(cache, Market[1].id, start_date) : r.price = Num(105, 1)
    /\ RowsOf(cache, Market[1].id, end_date) = {}

\* ---------------------------------------------- claims on the empty series
\* The rows a cache holds of a coin / of a currency code, with their counts.
CoinRows(c, coin_id) ==
    [r \in {x \in DOMAIN c.crypto_prices : x.coin_id = coin_id} |->
        c.crypto_prices[r]]

CodeRows(c, code) ==
    [r \in {x \in DOMAIN c.fiat_rates : x.code = code} |-> c.fiat_rates[r]]

\* C16: a save_*_cache call given None or a frame without rows returns without
\* raising and leaves both tables as they were; and in a run, an entity whose
\* fetch raised or returned no data has in the cache the rows it had before
\* the run.
C16_EmptySeriesIsNoOp ==
    /\ (saveCall.returned
        /\ (saveCall.arg.none \/ saveCall.arg.rows = <<>>))
       => (~saveCall.raised /\ cache = cache0)
    /\ \A i \in 1 .. Len(responses.cryptos) :
          LET resp == responses.cryptos[i].resp
          IN  (resp.raises \/ resp.prices = <<>>) =>
                  CoinRows(cache, result.cryptos[i].id)
                      = CoinRows(cache0, result.cryptos[i].id)
    /\ \A i \in 1 .. Len(responses.fiats) :
          LET r == responses.fiats[i]
          IN  (r.via # "base" /\ (r.resp.raises \/ r.resp.df = <<>>)) =>
                  CodeRows(cache, result.fiats[i].code)
                      = CodeRows(cache0, result.fiats[i].code)

\* save_crypto_cache was called with a frame without rows on a database that
\* holds a row of the entity: it returned and the row is there.
C16_Witness ==
    /\ saveCall.fn = "save_crypto_cache"
    /\ saveCall.returned
    /\ ~saveCall.arg.none
    /\ saveCall.arg.rows = <<>>
    /\ cache0 = SeededCache
    /\ CoinRows(cache, SavedCoin) # <<>>
    /\ cache = cache0

\* --------------------------------------------- claims on two concurrent runs
\* The keys of both tables, as <<table, entity, day>>, with the value stored.
StoredUnder(k) ==
    IF k[1] = "crypto_prices"
    THEN {r.price : r \in {x \in DOMAIN cache.crypto_prices :
                              x.coin_id = k[2] /\ x.Date = IsoFormat(k[3])}}
    ELSE {r.Close : r \in {x \in DOMAIN cache.fiat_rates :
                              x.code = k[2] /\ x.Date = IsoFormat(k[3])}}

RunActive == pc \notin {"idle", "done"}

\* C18: while a run is active the button is disabled and the run is that of
\* the one worker started; the button is enabled only before the first load
\* or after the handler of the run's terminal event; another worker is
\* started only after that; every worker is started with start <= end, an
\* on_load with start > end leaving the button enabled and no run active; and
\* the only step that enables the button is the terminal event's handler.
C18_OneActiveRun ==
    /\ [](/\ RunActive => (~load_btn /\ worker = "started")
          /\ load_btn => worker \in {"none", "handled"}
          /\ worker \in {"handled", "next"} => (pc = "done" /\ Terminals # {})
          /\ worker # "none" => start_date <= end_date
          /\ worker = "none" => pc = "idle"
          /\ dialog = "warning" => (load_btn /\ ~RunActive))
    /\ [][(~load_btn /\ load_btn') =>
              (/\ worker = "started" /\ worker' = "handled"
               /\ pc = "done"
               /\ Terminals # {})]_vars

\* The first load ended in success, its handler enabled the button, and a
\* second load was started: the button is disabled again.
C18_Witness ==
    /\ worker = "next"
    /\ ~load_btn
    /\ data # <<>>
    /\ pc = "done"

\* C19 (as stated): every started run emits its terminal event and the Load
\* button is enabled again afterwards, with or without stop() and whichever
\* entities fail.
C19_ButtonAlwaysReturns ==
    /\ (worker = "started") ~> (Terminals # {})
    /\ (worker = "started") ~> load_btn

\* C19 (amended): every started run emits its terminal event, with or
\* without stop() and whichever entities fail; after a finished event the
\* Load button is enabled again, after an error event the error box is shown
\* and the button is enabled again by the step in which the user closes it.
C19_RunEndsThenButtonOrBox ==
    /\ (worker = "started") ~> (Terminals # {})
    /\ (worker = "started") ~> (load_btn \/ dialog = "critical")
    /\ [](dialog = "critical" =>
            /\ Terminals # {}
            /\ events[Len(events)].sig = "error"
            /\ (worker = "started" => (~load_btn /\ ENABLED on_error_closed))
            /\ (worker = "handled" => load_btn))
    /\ []((worker = "started" /\ Terminals # {}
            /\ events[Len(events)].sig = "finished") => ENABLED on_data_ready)

\* A stopped run with a failed entity has ended and its button is back.
C19_Witness ==
    /\ worker = "handled"
    /\ load_btn
    /\ stopAt.called
    /\ data # <<>>
    /\ \E i \in 1 .. Len(events) :
          events[i].sig = "log" /\ events[i].msg = "Failed loading"

\* What one entity's fetch left, from the recorded answers of the provider.
CryptoOutcome(r) == CryptoFetch(r.resp)

FiatOutcome(r) ==
    IF r.via = "base" THEN FiatBase(start_date, end_date)
    ELSE IF r.resp.raises THEN FiatFailed
    ELSE IF r.via = "inverse" THEN FiatFrameSummary(Reciprocal(r.resp.df))
    ELSE FiatFrameSummary(r.resp.df)

\* The result and the events as a function of the parameters, the ranking,
\* the recorded answers (provider and database) and how far the run got;
\* neither the cache nor its initial contents occur in it.
OutcomeResult ==
    [cryptos |-> [i \in 1 .. Len(responses.cryptos) |->
                     LET o == CryptoOutcome(responses.cryptos[i])
                     IN  [id |-> top[i].id, name |-> top[i].name,
                          avg_price |-> o.avg, history |-> o.hist_df]],
     fiats |-> [i \in 1 .. Len(responses.fiats) |->
                   LET o == FiatOutcome(responses.fiats[i])
                   IN  [code |-> fiats[i].code, name |-> fiats[i].name,
                        avg_rate |-> o.avg, history |-> o.hist_df]]]

CryptoBegun ==
    Len(responses.cryptos) + (IF pc = "crypto_fetch" THEN 1 ELSE 0)

FiatBegun ==
    Len(responses.fiats) + (IF pc \in {"fiat_direct", "fiat_inverse"} THEN 1 ELSE 0)

OutcomeCryptoEvents(i) ==
    <<Log("Loading data for", top[i].name)>>
    \o (IF i > Len(responses.cryptos) THEN <<>>
        ELSE (IF responses.cryptos[i].resp.raises
              THEN <<Log("Failed loading", top[i].name)>> ELSE <<>>)
             \o <<IF responses.cryptos[i].dbFailed
                  THEN Log("Failed saving cache for", top[i].name)
                  ELSE Log("Saved cache for", top[i].name)>>
             \o <<Progress(i, Len(top))>>)

OutcomeFiatEvents(i) ==
    <<Log("Loading fiat data for", fiats[i].name)>>
    \o (IF i > Len(responses.fiats) THEN <<>>
        ELSE (IF responses.fiats[i].via # "base"
                 /\ responses.fiats[i].resp.raises
              THEN <<Log("Failed loading fiat", fiats[i].name)>> ELSE <<>>)
             \o <<IF responses.fiats[i].dbFailed
                  THEN Log("Failed saving cache for fiat", fiats[i].name)
                  ELSE Log("Saved cache for fiat", fiats[i].name)>>
             \o <<Progress(Len(top) + i, Len(top) + Len(fiats))>>)

RECURSIVE OutcomeCryptoUpTo(_)
OutcomeCryptoUpTo(n) ==
    IF n = 0 THEN <<>> ELSE OutcomeCryptoUpTo(n - 1) \o OutcomeCryptoEvents(n)

RECURSIVE OutcomeFiatUpTo(_)
OutcomeFiatUpTo(n) ==
    IF n = 0 THEN <<>> ELSE OutcomeFiatUpTo(n - 1) \o OutcomeFiatEvents(n)

\* The outcome of the run so far is the cache-free function of its inputs.
OutcomeIsFunctionOfInputs ==
    /\ LET outcome == OutcomeResult
       IN  /\ result = outcome
           /\ events = OutcomeCryptoUpTo(CryptoBegun)
                       \o OutcomeFiatUpTo(FiatBegun)
                       \o (IF pc # "done" THEN <<>>
                           ELSE IF responses.ranking = "raised" THEN <<Error>>
                           ELSE <<Finished(outcome)>>)
    /\ \A i \in 1 .. Len(result.cryptos) :
          responses.cryptos[i].resp.raises => result.cryptos[i].history = <<>>
    /\ \A i \in 1 .. Len(result.fiats) :
          (responses.fiats[i].via # "base" /\ responses.fiats[i].resp.raises)
              => result.fiats[i].history = <<>>

\* C20: the result and the events of a run are a function of its parameters,
\* the answers it was given and its stop timing alone, so two runs that
\* differ only in the cache they started with emit the same events and the
\* same result; an entity whose fetch failed has an empty history whatever
\* the cache holds for it.
C20_OutcomeIgnoresCache == []OutcomeIsFunctionOfInputs

\* A finished run that started with a seeded cache: the first entity's fetch
\* failed and its history is empty although the cache holds a row for it in
\* the requested range.
C20_Witness ==
    /\ pc = "done"
    /\ Emitted = {result}
    /\ cache0 = SeededCache
    /\ Len(result.cryptos) >= 1
    /\ responses.cryptos[1].resp.raises
    /\ result.cryptos[1].history = <<>>
    /\ load_crypto_cache(cache0, top[1].id, start_date, end_date) # <<>>
    /\ load_crypto_cache(cache, top[1].id, start_date, end_date) # <<>>

\* ------------------------------------------------ claims on partial results
\* The phase of the run in which stop() was called.
StoppedInCryptoPhase ==
    stopAt.called /\ stopAt.pc \in {"ranking", "crypto_loop", "crypto_fetch"}

StoppedInFiatPhase ==
    stopAt.called /\ stopAt.pc \in {"fiat_loop", "fiat_direct", "fiat_inverse"}

\* The fiat summaries appended when stop() was called, and the one of the
\* entity that was in flight then.
FiatsAtStop ==
    (stopAt.nsum - Len(top)) + (IF InFlight(stopAt.pc) THEN 1 ELSE 0)

\* C21: in every emitted result cryptos is a prefix of the ranking, fiats a
\* prefix of the fixed list, and fiats is non-empty only if cryptos holds
\* every ranked entity; after a stop in the fiat phase the result holds every
\* crypto and the fiats complete at the stop (the one in flight included),
\* after a stop in the crypto phase it holds no fiat.
C21_PartialResultsArePrefixes ==
    \A r \in Emitted :
        /\ Len(r.cryptos) <= Len(top)
        /\ CryptoEntities(r.cryptos) = SubSeq(top, 1, Len(r.cryptos))
        /\ Len(r.fiats) <= Len(fiats)
        /\ FiatEntities(r.fiats) = SubSeq(fiats, 1, Len(r.fiats))
        /\ (r.fiats # <<>> => Len(r.cryptos) = Len(top))
        /\ (StoppedInFiatPhase =>
              /\ Len(r.cryptos) = Len(top)
              /\ Len(r.fiats) = FiatsAtStop)
        /\ (StoppedInCryptoPhase => r.fiats = <<>>)

\* A run stopped during the download of its first fiat ended with both
\* ranked cryptos and that one fiat.
C21_Witness ==
    /\ pc = "done"
    /\ Emitted = {result}
    /\ stopAt.called
    /\ stopAt.pc = "fiat_direct"
    /\ stopAt.idx = 0
    /\ Len(top) = 2
    /\ Len(result.cryptos) = 2
    /\ Len(result.fiats) = 1
    /\ Len(fiats) >= 1

====
